---------------------------- MODULE Spec2Model ----------------------------
(***************************************************************************)
(* A model of the trip planner of gemini_orbit.py: the date resolver       *)
(* (determine_travel_year), the airport resolver (get_airport_ids), the    *)
(* itinerary selector (extract_flight_details), the flight formatter       *)
(* (process_flight_data) and the request handler that drives them          *)
(* (generate_trip_plan, served by read_trip_plan).                         *)
(*                                                                         *)
(* Python values are encoded as follows.  A dict is a function whose       *)
(* DOMAIN is its key set; a list is a sequence; None is the empty tuple    *)
(* and a value that may be None is carried in a one-element tuple.         *)
(* Strings that the program builds by formatting are sequences of          *)
(* one-character strings.                                                  *)
(***************************************************************************)
EXTENDS Integers, Sequences, FiniteSets, TLC

VARIABLES
    now,              \* the wall clock read by datetime.now()
    pc,               \* the position of generate_trip_plan
    user_input,       \* json.loads(response.text) of the first LLM call
    travel_year,      \* local travel_year
    travel_date,      \* local travel_date
    airport_data,     \* the list the airport lookup returned last
    origin_ids,       \* (origin_entity_id, origin_sky_id)
    destination_ids,  \* (destination_entity_id, destination_sky_id)
    flights_data,     \* the flight-search response
    selected,         \* (best_overall, most_economical, shortest)
    narrative,        \* response.text of the second LLM call
    flight_data,      \* the value of process_flight_data(flights_data)
    result,           \* what read_trip_plan returns
    error,            \* the exception that left generate_trip_plan
    steps,            \* the steps of the handler that have run, in order
    calls             \* the outbound calls issued, in order

vars == <<now, pc, user_input, travel_year, travel_date, airport_data,
          origin_ids, destination_ids, flights_data, selected, narrative,
          flight_data, result, error, steps, calls>>

-----------------------------------------------------------------------------
(* Bounds of the model. *)

\* the clock ranges over the years 2024 .. LastYear
LastYear == 2025
\* the airport lookup returns at most MaxCandidates records
MaxCandidates == 2
\* a flight-search response lists at most MaxItineraries itineraries
MaxItineraries == 2

-----------------------------------------------------------------------------
(* Python values. *)

None == <<>>
Some(v) == <<v>>

\* d.get(k)
Get(d, k) == IF k \in DOMAIN d THEN Some(d[k]) ELSE None

\* d.get(k, default)
GetOr(d, k, default) == IF k \in DOMAIN d THEN d[k] ELSE default

NoError == [type |-> "none"]

RECURSIVE SumSeq(_)
SumSeq(s) == IF s = <<>> THEN 0 ELSE Head(s) + SumSeq(Tail(s))

\* the sequences over S of length at most n
SeqUpTo(S, n) == UNION {[1..k -> S] : k \in 0..n}

-----------------------------------------------------------------------------
(* Decimal formatting, as done by the f-strings. *)

DigitChars == <<"0", "1", "2", "3", "4", "5", "6", "7", "8", "9">>

\* f"{n}" for n >= 0
RECURSIVE Str(_)
Str(n) == IF n < 10 THEN <<DigitChars[n + 1]>>
          ELSE Str(n \div 10) \o <<DigitChars[(n % 10) + 1]>>

\* f"{n:02d}" for n >= 0
Format02d(n) == IF Len(Str(n)) < 2 THEN <<"0">> \o Str(n) ELSE Str(n)

-----------------------------------------------------------------------------
(* The calendar behind datetime.now(). *)

IsLeap(y) == (y % 4 = 0 /\ y % 100 # 0) \/ y % 400 = 0

DaysInMonth(y, m) ==
    IF m = 2 THEN (IF IsLeap(y) THEN 29 ELSE 28)
    ELSE IF m \in {4, 6, 9, 11} THEN 30 ELSE 31

Dates == {d \in [year : 2024..LastYear, month : 1..12, day : 1..31] :
              d.day <= DaysInMonth(d.year, d.month)}

-----------------------------------------------------------------------------
(* Date Resolver. *)

\* determine_travel_year with the first test widened to <=
determine_travel_year_AlwaysNextInMonth(travel_month, current_date, day_now) ==
    LET current_month == current_date.month
        current_year  == current_date.year
    IN  IF travel_month <= current_month
        THEN current_year + 1
        ELSE current_year

\* determine_travel_year without the day test
determine_travel_year_NoDayTest(travel_month, current_date, day_now) ==
    LET current_month == current_date.month
        current_year  == current_date.year
    IN  IF travel_month < current_month
        THEN current_year + 1
        ELSE current_year

\* determine_travel_year(travel_month).  current_date is the value of the
\* datetime.now() of line 27 and day_now the .day of the datetime.now() of
\* line 32.
determine_travel_year(travel_month, current_date, day_now) ==
    LET current_month == current_date.month
        current_year  == current_date.year
    IN  IF travel_month < current_month
           \/ (travel_month = current_month /\ day_now > 1)
        THEN current_year + 1
        ELSE current_year

\* f"{travel_year}-{travel_month:02d}-01"
FormatTravelDate(year, month) ==
    Str(year) \o <<"-">> \o Format02d(month) \o <<"-", "0", "1">>


-----------------------------------------------------------------------------
(* Airport Resolver. *)

\* the records the airport lookup service can return
AirportRecords ==
    { [entityId |-> "95673506", skyId |-> "PHX"],
      [entityId |-> "27542089", skyId |-> "TYOA"],
      [entityId |-> "95673335"] }

AirportResponses == SeqUpTo(AirportRecords, MaxCandidates)

\* get_airport_ids taking the last candidate
get_airport_ids_Last(query, data) ==
    IF Len(data) > 0
    THEN LET airport_info == data[Len(data)]
         IN  [raised |-> FALSE,
              value  |-> <<Get(airport_info, "entityId"),
                           Get(airport_info, "skyId")>>]
    ELSE [raised |-> TRUE,
          error  |-> [type    |-> "ValueError",
                      message |-> <<"No airport found for query: ", query>>]]

\* get_airport_ids(query), data being response.json()
get_airport_ids(query, data) ==
    IF Len(data) > 0
    THEN LET airport_info == data[1]
         IN  [raised |-> FALSE,
              value  |-> <<Get(airport_info, "entityId"),
                           Get(airport_info, "skyId")>>]
    ELSE [raised |-> TRUE,
          error  |-> [type    |-> "ValueError",
                      message |-> <<"No airport found for query: ", query>>]]

-----------------------------------------------------------------------------
(* Flight-search responses. *)

Price(raw) == [raw |-> raw, formatted |-> <<"$">> \o Str(raw)]

LongLeg ==
    [origin            |-> [city |-> "Phoenix", displayCode |-> "PHX"],
     destination       |-> [city |-> "Tokyo", displayCode |-> "NRT"],
     departure         |-> [date |-> "2024-07-01", hour |-> 9, minute |-> 5, second |-> 30],
     arrival           |-> [date |-> "2024-07-01", hour |-> 11, minute |-> 10, second |-> 30],
     durationInMinutes |-> 125,
     carriers          |-> [marketing |-> <<[name |-> "ANA"]>>],
     segments          |-> <<[flightNumber |-> "173",
                              marketingCarrier |-> [alternateId |-> "NH"]]>>]

ShortLeg ==
    [origin            |-> [city |-> "Phoenix", displayCode |-> "PHX"],
     destination       |-> [city |-> "Tokyo", displayCode |-> "HND"],
     departure         |-> [date |-> "2024-07-01", hour |-> 14, minute |-> 0, second |-> 0],
     arrival           |-> [date |-> "2024-07-01", hour |-> 15, minute |-> 0, second |-> 0],
     durationInMinutes |-> 60,
     carriers          |-> [marketing |-> <<>>],
     segments          |-> <<>>]

TagSets == SUBSET {"cheapest", "shortest"}
RawPrices == {150, 200}
Scores == {7}
LegLists == {<<LongLeg>>, <<ShortLeg, ShortLeg>>}

\* the itineraries of a response; score and legs may be absent
Itineraries ==
    {[tags |-> t, price |-> Price(p), score |-> s, legs |-> l] :
        t \in TagSets, p \in RawPrices, s \in Scores, l \in LegLists}
    \cup
    {[tags |-> t, price |-> Price(p), legs |-> l] :
        t \in TagSets, p \in RawPrices, l \in LegLists}
    \cup
    {[tags |-> t, price |-> Price(p), score |-> s] :
        t \in TagSets, p \in RawPrices, s \in Scores}
    \cup
    {[tags |-> t, price |-> Price(p)] : t \in TagSets, p \in RawPrices}

\* a response without an itineraries key
NoItinerariesResponse == [message |-> "error"]

FlightResponses ==
    {[itineraries |-> its] : its \in SeqUpTo(Itineraries, MaxItineraries)}
    \cup {NoItinerariesResponse}

\* line 124: sum(leg.get('durationInMinutes', 0) for leg in legs)
TotalDuration(flight) ==
    LET legs == GetOr(flight, "legs", <<>>)
    IN  SumSeq([i \in 1..Len(legs) |-> GetOr(legs[i], "durationInMinutes", 0)])

-----------------------------------------------------------------------------
(* Itinerary Selector. *)

\* lines 98-99 keeping the first tagged itinerary
SelectCheapest_First(most_economical, flight) ==
    IF "cheapest" \in GetOr(flight, "tags", {}) /\ most_economical = None
    THEN Some(flight)
    ELSE most_economical

\* lines 98-99: if 'cheapest' in tags: most_economical = flight
SelectCheapest(most_economical, flight) ==
    IF "cheapest" \in GetOr(flight, "tags", {})
    THEN Some(flight)
    ELSE most_economical

\* lines 102-103 keeping the first tagged itinerary
SelectShortest_First(shortest, flight) ==
    IF "shortest" \in GetOr(flight, "tags", {}) /\ shortest = None
    THEN Some(flight)
    ELSE shortest

\* lines 102-103: if 'shortest' in tags: shortest = flight
SelectShortest(shortest, flight) ==
    IF "shortest" \in GetOr(flight, "tags", {})
    THEN Some(flight)
    ELSE shortest

\* lines 106-107 with >= for >
SelectBest_OnTie(best_overall, flight) ==
    IF best_overall = None
       \/ GetOr(flight, "score", 0) >= GetOr(best_overall[1], "score", 0)
    THEN Some(flight)
    ELSE best_overall

\* lines 106-107: replaced only by a strictly higher score
SelectBest(best_overall, flight) ==
    IF best_overall = None
       \/ GetOr(flight, "score", 0) > GetOr(best_overall[1], "score", 0)
    THEN Some(flight)
    ELSE best_overall

\* the loop of lines 94-107 over the itineraries from index i on
RECURSIVE ScanItineraries(_, _, _)
ScanItineraries(its, i, acc) ==
    IF i > Len(its) THEN acc
    ELSE ScanItineraries(its, i + 1,
             <<SelectBest(acc[1], its[i]),
               SelectCheapest(acc[2], its[i]),
               SelectShortest(acc[3], its[i])>>)

\* extract_flight_details(flights_data):
\* (best_overall, most_economical, shortest)
extract_flight_details(data) ==
    ScanItineraries(GetOr(data, "itineraries", <<>>), 1, <<None, None, None>>)

-----------------------------------------------------------------------------
(* Flight Formatter. *)

\* strftime('%Y-%m-%d %H:%M') of a parsed ISO timestamp
FormatTimestamp(t) ==
    <<t.date, " ">> \o Format02d(t.hour) \o <<":">> \o Format02d(t.minute)

\* f"{d // 60}h {d % 60}m"
FormatDuration(d) == Str(d \div 60) \o <<"h", " ">> \o Str(d % 60) \o <<"m">>

\* lines 66-84: the record built for one leg of an itinerary
FormatLeg(itinerary, leg) ==
    LET airline_name ==
            IF Len(leg.carriers.marketing) > 0
            THEN leg.carriers.marketing[1].name
            ELSE "Unknown Airline"
        flight_number ==
            IF Len(leg.segments) > 0
            THEN GetOr(leg.segments[1], "flightNumber", "N/A")
            ELSE "N/A"
        alternate_id ==
            IF Len(leg.segments) > 0
               /\ "marketingCarrier" \in DOMAIN leg.segments[1]
            THEN GetOr(leg.segments[1].marketingCarrier, "alternateId", "N/A")
            ELSE "N/A"
    IN  [price        |-> itinerary.price.formatted,
         from         |-> <<leg.origin.city, " (", leg.origin.displayCode, ")">>,
         to           |-> <<leg.destination.city, " (",
                            leg.destination.displayCode, ")">>,
         departure    |-> FormatTimestamp(leg.departure),
         arrival      |-> FormatTimestamp(leg.arrival),
         duration     |-> FormatDuration(leg.durationInMinutes),
         airline      |-> airline_name,
         flightNumber |-> flight_number,
         alternateId  |-> alternate_id]

\* the loop of lines 63-85 from itinerary i on; a subscript on an absent key
\* raises KeyError, and processed_flights is then what the loop had built
RECURSIVE ProcessItineraries(_, _, _)
ProcessItineraries(its, i, processed_flights) ==
    IF i > Len(its)
    THEN [raised |-> FALSE, value |-> processed_flights]
    ELSE IF "legs" \notin DOMAIN its[i]
    THEN [raised |-> TRUE,
          error  |-> [type |-> "KeyError", message |-> <<"legs">>],
          processed_flights |-> processed_flights]
    ELSE LET legs == its[i].legs
         IN  ProcessItineraries(its, i + 1,
                 processed_flights
                 \o [j \in 1..Len(legs) |-> FormatLeg(its[i], legs[j])])

\* the loop of lines 63-85 ending at an itinerary without legs
RECURSIVE ProcessItineraries_Stop(_, _, _)
ProcessItineraries_Stop(its, i, processed_flights) ==
    IF i > Len(its) \/ "legs" \notin DOMAIN its[i]
    THEN [raised |-> FALSE, value |-> processed_flights]
    ELSE LET legs == its[i].legs
         IN  ProcessItineraries_Stop(its, i + 1,
                 processed_flights
                 \o [j \in 1..Len(legs) |-> FormatLeg(its[i], legs[j])])

\* process_flight_data reading the response with .get and stopping at, rather
\* than raising on, a malformed element
process_flight_data_Lenient(data) ==
    ProcessItineraries_Stop(GetOr(data, "itineraries", <<>>), 1, <<>>)

\* process_flight_data treating an empty itineraries list as absent
process_flight_data_EmptyRaises(data) ==
    IF "itineraries" \notin DOMAIN data \/ data.itineraries = <<>>
    THEN [raised |-> TRUE,
          error  |-> [type |-> "KeyError", message |-> <<"itineraries">>],
          processed_flights |-> <<>>]
    ELSE ProcessItineraries(data.itineraries, 1, <<>>)

\* process_flight_data(data)
process_flight_data(data) ==
    IF "itineraries" \notin DOMAIN data
    THEN [raised |-> TRUE,
          error  |-> [type |-> "KeyError", message |-> <<"itineraries">>],
          processed_flights |-> <<>>]
    ELSE ProcessItineraries(data.itineraries, 1, <<>>)

-----------------------------------------------------------------------------
(* Trip Planner: generate_trip_plan, one action per step. *)

\* the statements of generate_trip_plan in program order
Order ==
    <<"Parse", "ResolveDate", "ResolveOrigin", "ResolveDestination",
      "FetchFlights", "Select", "Narrate", "Format", "Respond">>

IndexOf(seq, x) == CHOOSE i \in 1..Len(seq) : seq[i] = x

\* the statement order with process_flight_data evaluated before the second
\* generate_content
Following_FormatBeforeNarrate(step) ==
    CASE step = "Select"  -> "Format"
      [] step = "Format"  -> "Narrate"
      [] step = "Narrate" -> "Respond"
      [] step = "Respond" -> "done"
      [] OTHER -> Order[IndexOf(Order, step) + 1]

\* the statement that follows step in generate_trip_plan
Following(step) ==
    IF step = "Respond" THEN "done" ELSE Order[IndexOf(Order, step) + 1]

\* control after a step under a handler that catches and goes on
After_Swallow(step, raised) == Following(step)

\* control after a step: generate_trip_plan and read_trip_plan have no
\* try/except, so an exception leaves the handler
After(step, raised) == IF raised THEN "failed" ELSE Following(step)

Raise(type, step, message) == [type |-> type, step |-> step, message |-> message]

\* the replies json.loads accepts: the schema's fields, each possibly absent
ParsedIntents ==
    {[origin |-> "Phoenix", destination |-> "Tokyo", travel_month |-> m] :
        m \in 1..12}
    \cup {[origin |-> "Phoenix", destination |-> "Tokyo"],
          [origin |-> "Phoenix", travel_month |-> 7],
          [destination |-> "Tokyo", travel_month |-> 7]}

\* user_input.get(k)
Field(k) == IF user_input = None THEN None ELSE Get(user_input[1], k)

\* lines 153-160: the first generate_content and json.loads
Parse ==
    /\ pc = "Parse"
    /\ steps' = Append(steps, "Parse")
    /\ calls' = Append(calls, [service |-> "llm", request |-> <<"schema">>])
    /\ \/ \E type \in {"LLMError", "JSONDecodeError"} :
            /\ error' = Raise(type, "Parse", <<>>)
            /\ pc' = After("Parse", TRUE)
            /\ UNCHANGED user_input
       \/ \E reply \in ParsedIntents :
            /\ user_input' = Some(reply)
            /\ pc' = After("Parse", FALSE)
            /\ UNCHANGED error
    /\ UNCHANGED <<now, travel_year, travel_date, airport_data, origin_ids,
                   destination_ids, flights_data, selected, narrative,
                   flight_data, result>>

\* lines 163-171: determine_travel_year and the travel date
ResolveDate ==
    /\ pc = "ResolveDate"
    /\ steps' = Append(steps, "ResolveDate")
    /\ LET travel_month == Field("travel_month")
       IN  IF travel_month = None
           THEN \* None < current_month raises TypeError
                /\ error' = Raise("TypeError", "ResolveDate", <<>>)
                /\ pc' = After("ResolveDate", TRUE)
                /\ UNCHANGED <<travel_year, travel_date>>
           ELSE LET year == determine_travel_year(travel_month[1], now, now.day)
                IN  /\ travel_year' = Some(year)
                    /\ travel_date' = Some(FormatTravelDate(year, travel_month[1]))
                    /\ pc' = After("ResolveDate", FALSE)
                    /\ UNCHANGED error
    /\ UNCHANGED <<now, user_input, airport_data, origin_ids, destination_ids,
                   flights_data, selected, narrative, flight_data, result,
                   calls>>

\* a call get_airport_ids(query) made at step, its value bound to ids
Lookup(step, query, ids) ==
    /\ pc = step
    /\ steps' = Append(steps, step)
    /\ calls' = Append(calls, [service |-> "airport", request |-> <<query>>])
    /\ \/ \* requests.get or response.json() raises
          /\ airport_data' = None
          /\ error' = Raise("RequestException", step, <<>>)
          /\ pc' = After(step, TRUE)
          /\ ids' = ids
       \/ \E data \in AirportResponses :
            LET r == get_airport_ids(query, data)
            IN  /\ airport_data' = Some([query |-> query, data |-> data])
                /\ IF r.raised
                   THEN /\ error' = Raise(r.error.type, step, r.error.message)
                        /\ ids' = ids
                   ELSE /\ ids' = Some(r.value)
                        /\ UNCHANGED error
                /\ pc' = After(step, r.raised)

\* line 176
ResolveOrigin ==
    /\ Lookup("ResolveOrigin", Field("origin"), origin_ids)
    /\ UNCHANGED <<now, user_input, travel_year, travel_date, destination_ids,
                   flights_data, selected, narrative, flight_data, result>>

\* line 177
ResolveDestination ==
    /\ Lookup("ResolveDestination", Field("destination"), destination_ids)
    /\ UNCHANGED <<now, user_input, travel_year, travel_date, origin_ids,
                   flights_data, selected, narrative, flight_data, result>>

\* the responses the whole-request specification fetches: those built from
\* one complete itinerary and one without legs
SampleItineraries ==
    { [tags |-> {"cheapest", "shortest"}, price |-> Price(150), score |-> 7,
       legs |-> <<LongLeg>>],
      [tags |-> {}, price |-> Price(200), score |-> 7] }

SampleResponses ==
    {r \in FlightResponses :
        "itineraries" \in DOMAIN r =>
            \A i \in 1..Len(r.itineraries) : r.itineraries[i] \in SampleItineraries}

\* line 180: get_flight_data
FetchFlights ==
    /\ pc = "FetchFlights"
    /\ steps' = Append(steps, "FetchFlights")
    /\ calls' = Append(calls,
                    [service |-> "flights",
                     request |-> <<origin_ids, destination_ids, travel_date>>])
    /\ \/ \* requests.get or response.json() raises
          /\ error' = Raise("RequestException", "FetchFlights", <<>>)
          /\ pc' = After("FetchFlights", TRUE)
          /\ UNCHANGED flights_data
       \/ \E data \in SampleResponses :
            /\ flights_data' = Some(data)
            /\ pc' = After("FetchFlights", FALSE)
            /\ UNCHANGED error
    /\ UNCHANGED <<now, user_input, travel_year, travel_date, airport_data,
                   origin_ids, destination_ids, selected, narrative,
                   flight_data, result>>

\* the response held in flights_data
Fetched == IF flights_data = None THEN NoItinerariesResponse ELSE flights_data[1]

\* line 183: extract_flight_details
Select ==
    /\ pc = "Select"
    /\ steps' = Append(steps, "Select")
    /\ selected' = Some(extract_flight_details(Fetched))
    /\ pc' = After("Select", FALSE)
    /\ UNCHANGED <<now, user_input, travel_year, travel_date, airport_data,
                   origin_ids, destination_ids, flights_data, narrative,
                   flight_data, result, error, calls>>

\* lines 187-211: the prompt and the second generate_content
Narrate ==
    /\ pc = "Narrate"
    /\ steps' = Append(steps, "Narrate")
    /\ calls' = Append(calls,
                    [service |-> "llm",
                     request |-> <<Field("origin"), Field("destination"), selected>>])
    /\ \/ /\ error' = Raise("LLMError", "Narrate", <<>>)
          /\ pc' = After("Narrate", TRUE)
          /\ UNCHANGED narrative
       \/ /\ narrative' = Some("itinerary text")
          /\ pc' = After("Narrate", FALSE)
          /\ UNCHANGED error
    /\ UNCHANGED <<now, user_input, travel_year, travel_date, airport_data,
                   origin_ids, destination_ids, flights_data, selected,
                   flight_data, result>>

\* line 213: process_flight_data(flights_data)
Format ==
    /\ pc = "Format"
    /\ steps' = Append(steps, "Format")
    /\ LET r == process_flight_data(Fetched)
       IN  /\ IF r.raised
              THEN /\ error' = Raise(r.error.type, "Format", r.error.message)
                   /\ UNCHANGED flight_data
              ELSE /\ flight_data' = Some(r.value)
                   /\ UNCHANGED error
           /\ pc' = After("Format", r.raised)
    /\ UNCHANGED <<now, user_input, travel_year, travel_date, airport_data,
                   origin_ids, destination_ids, flights_data, selected,
                   narrative, result, calls>>

\* lines 212-215 and 227: the dict returned to the caller
Respond ==
    /\ pc = "Respond"
    /\ steps' = Append(steps, "Respond")
    /\ result' = Some([flight_data |-> flight_data, response |-> narrative])
    /\ pc' = After("Respond", FALSE)
    /\ UNCHANGED <<now, user_input, travel_year, travel_date, airport_data,
                   origin_ids, destination_ids, flights_data, selected,
                   narrative, flight_data, error, calls>>

-----------------------------------------------------------------------------
(* Specifications. *)

\* the dates on which the whole-request specification starts
RequestDates ==
    {d \in Dates : d.year = 2024 /\ <<d.month, d.day>> \in {<<3, 15>>, <<7, 1>>, <<12, 31>>}}

\* a request arrives: nothing has run
Init ==
    /\ now \in RequestDates
    /\ pc = "Parse"
    /\ user_input = None
    /\ travel_year = None
    /\ travel_date = None
    /\ airport_data = None
    /\ origin_ids = None
    /\ destination_ids = None
    /\ flights_data = None
    /\ selected = None
    /\ narrative = None
    /\ flight_data = None
    /\ result = None
    /\ error = NoError
    /\ steps = <<>>
    /\ calls = <<>>

Next ==
    \/ Parse
    \/ ResolveDate
    \/ ResolveOrigin
    \/ ResolveDestination
    \/ FetchFlights
    \/ Select
    \/ Narrate
    \/ Format
    \/ Respond

\* one request, from its arrival to its response or failure
Spec == Init /\ [][Next]_vars

\* the handler after a successful parse, on any date
InitDate ==
    /\ now \in Dates
    /\ pc = "ResolveDate"
    /\ user_input \in {Some(u) : u \in ParsedIntents}
    /\ travel_year = None
    /\ travel_date = None
    /\ airport_data = None
    /\ origin_ids = None
    /\ destination_ids = None
    /\ flights_data = None
    /\ selected = None
    /\ narrative = None
    /\ flight_data = None
    /\ result = None
    /\ error = NoError
    /\ steps = <<"Parse">>
    /\ calls = <<[service |-> "llm", request |-> <<"schema">>]>>

NextDate == ResolveDate

\* the date resolver applied to every date and parsed intent
SpecDate == InitDate /\ [][NextDate]_vars

PhoenixIds == <<Some("95673506"), Some("PHX")>>
TokyoIds == <<Some("27542089"), Some("TYOA")>>

\* the handler after a successful flight search, on any response
InitFlights ==
    /\ now = [year |-> 2024, month |-> 3, day |-> 15]
    /\ pc = "Select"
    /\ user_input = Some([origin |-> "Phoenix", destination |-> "Tokyo",
                          travel_month |-> 7])
    /\ travel_year = Some(2024)
    /\ travel_date = Some(FormatTravelDate(2024, 7))
    /\ airport_data = Some([query |-> Some("Tokyo"),
                            data |-> <<[entityId |-> "27542089", skyId |-> "TYOA"]>>])
    /\ origin_ids = Some(PhoenixIds)
    /\ destination_ids = Some(TokyoIds)
    /\ flights_data \in {Some(r) : r \in FlightResponses}
    /\ selected = None
    /\ narrative = None
    /\ flight_data = None
    /\ result = None
    /\ error = NoError
    /\ steps = SubSeq(Order, 1, 5)
    /\ calls = <<[service |-> "llm", request |-> <<"schema">>],
                 [service |-> "airport", request |-> <<Some("Phoenix")>>],
                 [service |-> "airport", request |-> <<Some("Tokyo")>>],
                 [service |-> "flights",
                  request |-> <<Some(PhoenixIds), Some(TokyoIds),
                                Some(FormatTravelDate(2024, 7))>>]>>

NextFlights ==
    \/ Select
    \/ Narrate
    \/ Format
    \/ Respond

\* selection, narration, formatting and response over every response
SpecFlights == InitFlights /\ [][NextFlights]_vars

-----------------------------------------------------------------------------
(* Vocabulary of the properties. *)

Range(s) == {s[i] : i \in 1..Len(s)}

IsPrefix(s, t) == Len(s) <= Len(t) /\ s = SubSeq(t, 1, Len(s))

MaxOf(S) == CHOOSE x \in S : \A y \in S : y <= x
MinOf(S) == CHOOSE x \in S : \A y \in S : x <= y

DigitValue(c) == (CHOOSE i \in 1..10 : DigitChars[i] = c) - 1

RECURSIVE ParseInt(_)
ParseInt(s) ==
    IF s = <<>> THEN 0
    ELSE 10 * ParseInt(SubSeq(s, 1, Len(s) - 1)) + DigitValue(s[Len(s)])

\* the calendar date an ISO string YYYY-MM-DD denotes
ParseDate(s) ==
    LET dashes == {i \in 1..Len(s) : s[i] = "-"}
        a == MinOf(dashes)
        b == MaxOf(dashes)
    IN  [year  |-> ParseInt(SubSeq(s, 1, a - 1)),
         month |-> ParseInt(SubSeq(s, a + 1, b - 1)),
         day   |-> ParseInt(SubSeq(s, b + 1, Len(s)))]

\* d is not later than e
DateLeq(d, e) ==
    \/ d.year < e.year
    \/ d.year = e.year /\ d.month < e.month
    \/ d.year = e.year /\ d.month = e.month /\ d.day <= e.day

\* the itinerary list the selector scans
Listed == GetOr(Fetched, "itineraries", <<>>)

Tagged(tag) == {i \in 1..Len(Listed) : tag \in GetOr(Listed[i], "tags", {})}

ScoreOf(flight) == GetOr(flight, "score", 0)

\* the earliest index of S at which measure f is least
EarliestLeast(S, f(_)) ==
    MinOf({i \in S : \A j \in S : f(Listed[i]) <= f(Listed[j])})

RawPrice(flight) == flight.price.raw

FormatRan == "Format" \in Range(steps)

-----------------------------------------------------------------------------
(* Date Resolver. *)

-----------------------------------------------------------------------------
(* Itinerary Selector and Flight Formatter. *)

C5_BestOverall ==
    (selected # None /\ Len(Listed) > 0) =>
        LET top   == MaxOf({ScoreOf(Listed[i]) : i \in 1..Len(Listed)})
            first == MinOf({i \in 1..Len(Listed) : ScoreOf(Listed[i]) = top})
        IN  selected[1][1] = Some(Listed[first])

\* two different itineraries share the maximum score and the first is kept
C5_Witness ==
    /\ selected # None
    /\ Len(Listed) = 2
    /\ Listed[1] # Listed[2]
    /\ ScoreOf(Listed[1]) = 7 /\ ScoreOf(Listed[2]) = 7
    /\ selected[1][1] = Some(Listed[1])

EmptyList == "itineraries" \in DOMAIN Fetched /\ Len(Fetched.itineraries) = 0

\* C6: on a response whose itineraries list is empty the selector returns
\* (None, None, None), the formatter returns the empty list, and neither raises.
C6_EmptyList ==
    EmptyList =>
        /\ selected # None => selected[1] = <<None, None, None>>
        /\ "Select" \in Range(steps) => selected # None
        /\ FormatRan => (flight_data = Some(<<>>) /\ error.type = "none")
        /\ error.type # "none" => error.step \notin {"Select", "Format"}

\* an empty list went through selection and formatting and was answered
C6_Witness ==
    /\ EmptyList
    /\ selected = Some(<<None, None, None>>)
    /\ pc = "done"
    /\ result = Some([flight_data |-> Some(<<>>), response |-> narrative])

Malformed ==
    \/ "itineraries" \notin DOMAIN Fetched
    \/ \E i \in 1..Len(Fetched.itineraries) :
           "legs" \notin DOMAIN Fetched.itineraries[i]

\* C7: on a response without an itineraries key, or with an itinerary without
\* a legs key, no result is ever returned, and once the formatter has run
\* the request has failed with its KeyError and holds no formatted records.
C7_MalformedIsFatal ==
    Malformed =>
        /\ result = None
        /\ pc # "done"
        /\ FormatRan =>
              /\ pc = "failed"
              /\ error.type = "KeyError"
              /\ error.step = "Format"
              /\ flight_data = None

\* the formatter failed on the second itinerary after formatting the first
C7_Witness ==
    /\ "itineraries" \in DOMAIN Fetched
    /\ Len(Fetched.itineraries) = 2
    /\ "legs" \in DOMAIN Fetched.itineraries[1]
    /\ "legs" \notin DOMAIN Fetched.itineraries[2]
    /\ pc = "failed"
    /\ error.type = "KeyError"
    /\ error.step = "Format"
    /\ result = None

-----------------------------------------------------------------------------
(* Airport Resolver and Trip Planner. *)

LastStep == steps[Len(steps)]

\* the identifiers the lookup made at step was to bind
IdsOf(step) == IF step = "ResolveOrigin" THEN origin_ids ELSE destination_ids

QueryOf(step) ==
    IF step = "ResolveOrigin" THEN Field("origin") ELSE Field("destination")

\* C8: when a lookup has just answered, one or more candidates give the
\* entityId and skyId of the first candidate and no error, and zero
\* candidates give a ValueError that carries the query and ends the request.
C8_FirstCandidate ==
    \A step \in {"ResolveOrigin", "ResolveDestination"} :
        (steps # <<>> /\ LastStep = step /\ airport_data # None) =>
            LET query == airport_data[1].query
                data  == airport_data[1].data
            IN  /\ query = QueryOf(step)
                /\ IF Len(data) > 0
                   THEN /\ IdsOf(step) = Some(<<Get(data[1], "entityId"),
                                                Get(data[1], "skyId")>>)
                        /\ error.type = "none"
                        /\ pc # "failed"
                   ELSE /\ IdsOf(step) = None
                        /\ pc = "failed"
                        /\ error.type = "ValueError"
                        /\ error.step = step
                        /\ error.message[2] = query

\* the origin lookup returned two different candidates and the first was used
C8_Witness ==
    /\ steps # <<>>
    /\ LastStep = "ResolveOrigin"
    /\ airport_data # None
    /\ Len(airport_data[1].data) = 2
    /\ airport_data[1].data[1].entityId # airport_data[1].data[2].entityId
    /\ origin_ids = Some(<<Some(airport_data[1].data[1].entityId),
                           Get(airport_data[1].data[1], "skyId")>>)

\* the outbound calls made by the steps up to and including a step
CallsThrough(step) ==
    CASE step = "Parse" -> 1
      [] step = "ResolveOrigin" -> 2
      [] step = "ResolveDestination" -> 3
      [] step = "FetchFlights" -> 4

=============================================================================
